---- MODULE Spec2Model ----
(***************************************************************************)
(* Model of infection_coloured.py: class Infection.  A run is              *)
(*   Infection(rows, cols, seed, risk, iterations); spawn(); propagate();  *)
(*   compute_path()                                                        *)
(* The grid is the dictionary infected: cell id -> None | generation.      *)
(* Real numbers are modelled exactly as fractions: seed = seed / SeedDen,  *)
(* risk = risk / SampleDen, a value of random.random() = k / SampleDen     *)
(* with 0 <= k < SampleDen (the half-open interval [0,1)).  SeedDen is a   *)
(* power of two, so that size * seed is computed exactly by the floats.    *)
(***************************************************************************)
EXTENDS Integers, Sequences, FiniteSets, TLC

\* Bounds of the model
MaxCells == 6      \* grids with rows * cols <= MaxCells
MaxIter == 2       \* iterations <= MaxIter
MaxDim == 4        \* rows, cols <= MaxDim where get_neighbours is called on its own
SeedBits == 2      \* seed fractions are multiples of 1 / 2^SeedBits
SampleDen == 2     \* samples and risk are multiples of 1 / SampleDen

SeedDen == 2 ^ SeedBits

\* Python's None, as the value of infected[i]
None == -1

\* The values random.random() can return: [0, 1)
Samples == 0 .. (SampleDen - 1)

\* the dictionary of get_neighbours built in the order r, l, d, u
Dirs_rldu == <<"r", "l", "d", "u">>

\* The iteration order of the dictionary get_neighbours returns
Dirs == <<"u", "d", "l", "r">>

VARIABLES
    rows, cols, seed, risk, iterations,  \* constructor arguments (self.*)
    generation,                          \* self.generation
    infected,                            \* self.infected
    route,                               \* self.route; <<>> is None
    path,                                \* compute_path: the coordinates printed
    pc,                                  \* position in the main program
    positions, spawnLeft,                \* spawn: the pool, iterations left of its loop
    cursor,                              \* propagate: position of the for loop
    alist, queue, visited,               \* bfs: its locals
    seeded,                              \* history: infected when spawn returned
    snapshot,                            \* history: infected at the start of the round
    attempts,                            \* history: <<pos, n>> for the calls infect(n) that
                                         \* propagate made in this round while visiting pos
    probe, probed                        \* a call get_neighbours(probe) and what it returned

vars == <<rows, cols, seed, risk, iterations, generation, infected, route, path,
          pc, positions, spawnLeft, cursor, alist, queue, visited,
          seeded, snapshot, attempts, probe, probed>>

\* self.size
size == rows * cols

Cells == 0 .. (size - 1)

\* math.floor(self.size * self.seed)
SeedCount == (size * seed) \div SeedDen

-----------------------------------------------------------------------------
\* __init__, after the argument checks of the main program
Init ==
    /\ rows \in 1 .. MaxCells
    /\ cols \in 1 .. MaxCells
    /\ rows * cols <= MaxCells
    /\ seed \in 0 .. SeedDen
    /\ risk \in 0 .. SampleDen
    /\ iterations \in 0 .. MaxIter
    /\ generation = 0
    /\ infected = [i \in 0 .. (rows * cols - 1) |-> None]
    /\ route = <<>>
    /\ path = <<>>
    /\ pc = "spawn"
    /\ positions = (0 .. (rows * cols - 1)) \ {0, rows * cols - 1}
    /\ spawnLeft = (rows * cols * seed) \div SeedDen
    /\ cursor = 0
    /\ alist = <<>>
    /\ queue = <<>>
    /\ visited = <<>>
    /\ seeded = <<>>
    /\ snapshot = <<>>
    /\ attempts = {}
    /\ probe = None
    /\ probed = <<>>

\* infect without the test that keeps the corners clean
infect_corners(inf, pos, ir, sample, gen) ==
    IF sample <= ir THEN [inf EXCEPT ![pos] = gen] ELSE inf

\* infect that stores None when the attempt fails
infect_clear(inf, pos, ir, sample, gen) ==
    IF pos \in {0, size - 1} THEN inf
    ELSE [inf EXCEPT ![pos] = IF sample <= ir THEN gen ELSE None]

\* infect(pos, risk) with the value `sample` of random.random(); ir is in
\* units of 1 / SampleDen; returns the new self.infected
infect(inf, pos, ir, sample, gen) ==
    IF sample <= ir /\ pos \notin {0, size - 1}
    THEN [inf EXCEPT ![pos] = gen]
    ELSE inf

\* get_neighbours without the tests for the left and right edges: the row wraps
get_neighbours_wrap(pos) ==
    [u |-> IF pos - cols < 0 THEN None ELSE pos - cols,
     d |-> IF pos + cols >= size THEN None ELSE pos + cols,
     l |-> IF pos - 1 < 0 THEN None ELSE pos - 1,
     r |-> IF pos + 1 >= size THEN None ELSE pos + 1]

\* get_neighbours(pos)
get_neighbours(pos) ==
    [u |-> IF pos - cols < 0 THEN None ELSE pos - cols,
     d |-> IF pos + cols >= size THEN None ELSE pos + cols,
     l |-> IF pos % cols = 0 THEN None ELSE pos - 1,
     r |-> IF (pos + 1) % cols = 0 THEN None ELSE pos + 1]

-----------------------------------------------------------------------------
\* spawn without positions.remove(random_pos): a cell can be drawn twice
SpawnStep_keep ==
    /\ pc = "spawn"
    /\ spawnLeft > 0
    /\ positions # {}
    /\ \E random_pos \in positions, sample \in Samples :
        infected' = infect(infected, random_pos, SampleDen, sample, generation)
    /\ spawnLeft' = spawnLeft - 1
    /\ UNCHANGED <<probe, probed, rows, cols, seed, risk, iterations, generation, route, path, pc,
                   positions, cursor, alist, queue, visited, seeded, snapshot, attempts>>

\* spawn: one iteration of its loop; infect(random_pos, 1) has risk 1
SpawnStep ==
    /\ pc = "spawn"
    /\ spawnLeft > 0
    /\ positions # {}
    /\ \E random_pos \in positions, sample \in Samples :
        /\ infected' = infect(infected, random_pos, SampleDen, sample, generation)
        /\ positions' = positions \ {random_pos}
    /\ spawnLeft' = spawnLeft - 1
    /\ UNCHANGED <<probe, probed, rows, cols, seed, risk, iterations, generation, route, path, pc,
                   cursor, alist, queue, visited, seeded, snapshot, attempts>>

\* spawn: random.choice of an empty tuple raises IndexError, which nothing catches
SpawnRaise ==
    /\ pc = "spawn"
    /\ spawnLeft > 0
    /\ positions = {}
    /\ pc' = "error"
    /\ UNCHANGED <<probe, probed, rows, cols, seed, risk, iterations, generation, infected, route, path,
                   positions, spawnLeft, cursor, alist, queue, visited,
                   seeded, snapshot, attempts>>

\* spawn returns
SpawnReturn ==
    /\ pc = "spawn"
    /\ spawnLeft = 0
    /\ pc' = "propagate"
    /\ seeded' = infected
    /\ UNCHANGED <<probe, probed, rows, cols, seed, risk, iterations, generation, infected, route, path,
                   positions, spawnLeft, cursor, alist, queue, visited,
                   snapshot, attempts>>

\* the test without `gen < self.generation`: every infected cell transmits
CanTransmit_any(gen, gn) == gen # None

\* propagate: the test of the for loop's body, `gen is not None and gen < self.generation`
CanTransmit(gen, gn) == gen # None /\ gen < gn

\* propagate: the inner loop `for _, n in neighbours.items(): if n is not None:
\* self.infect(n)`, from the k-th direction on; smp[k] is the sample drawn by
\* the call for the k-th direction (no call, no sample, when n is None)
RECURSIVE InfectNeighbours(_, _, _, _)
InfectNeighbours(inf, neighbours, smp, k) ==
    IF k > Len(Dirs) THEN inf
    ELSE LET n == neighbours[Dirs[k]]
         IN  InfectNeighbours(IF n # None THEN infect(inf, n, risk, smp[k], generation)
                                          ELSE inf,
                              neighbours, smp, k + 1)

\* the in-grid neighbours of pos, and the directions they lie in
InGrid(pos) == {get_neighbours(pos)[Dirs[k]] : k \in 1 .. Len(Dirs)} \ {None}

InGridDirs(pos) == {k \in 1 .. Len(Dirs) : get_neighbours(pos)[Dirs[k]] # None}

\* the while test with <= for <: one round too many
Continues_le(gn, its) == gn <= its

\* propagate: the while test, `self.generation < self.iterations`
Continues(gn, its) == gn < its

\* propagate: the while test succeeds; show_infection() only prints
RoundStart ==
    /\ pc = "propagate"
    /\ Continues(generation, iterations)
    /\ generation' = generation + 1
    /\ cursor' = 0
    /\ pc' = "round"
    /\ snapshot' = infected
    /\ attempts' = {}
    /\ UNCHANGED <<probe, probed, rows, cols, seed, risk, iterations, infected, route, path,
                   positions, spawnLeft, alist, queue, visited, seeded>>

\* propagate: one iteration of `for pos, gen in self.infected.items()`; the
\* dictionary iterates in insertion order 0, 1, ..., size - 1, and the loop
\* ends after the last key
Visit ==
    /\ pc = "round"
    /\ LET pos == cursor
           gen == infected[pos]
       IN  IF CanTransmit(gen, generation)
           THEN /\ \E smp \in [InGridDirs(pos) -> Samples] :
                     infected' = InfectNeighbours(infected, get_neighbours(pos), smp, 1)
                /\ attempts' = attempts \cup {<<pos, n>> : n \in InGrid(pos)}
           ELSE UNCHANGED <<infected, attempts>>
    /\ IF cursor + 1 < size
       THEN cursor' = cursor + 1 /\ pc' = pc
       ELSE cursor' = 0 /\ pc' = "propagate"
    /\ UNCHANGED <<probe, probed, rows, cols, seed, risk, iterations, generation, route, path,
                   positions, spawnLeft, alist, queue, visited, seeded, snapshot>>

\* propagate returns: the while test fails; compute_path calls bfs
PropagateReturn ==
    /\ pc = "propagate"
    /\ ~Continues(generation, iterations)
    /\ pc' = "bfs"
    /\ UNCHANGED <<probe, probed, rows, cols, seed, risk, iterations, generation, infected, route, path,
                   positions, spawnLeft, cursor, alist, queue, visited,
                   seeded, snapshot, attempts>>

-----------------------------------------------------------------------------
\* adjacency_list without the two `is None` tests: the whole grid
adjacency_list_all(inf) ==
    [pos \in DOMAIN inf |->
        LET neighbours == get_neighbours(pos)
        IN  SelectSeq([k \in 1 .. Len(Dirs) |-> neighbours[Dirs[k]]],
                      LAMBDA n : n # None)]

\* adjacency_list without the test `self.infected[n] is None`: the deques also
\* hold infected neighbours, which are no keys
adjacency_list_nbrs(inf) ==
    [pos \in {c \in DOMAIN inf : inf[c] = None} |->
        LET neighbours == get_neighbours(pos)
        IN  SelectSeq([k \in 1 .. Len(Dirs) |-> neighbours[Dirs[k]]],
                      LAMBDA n : n # None)]

\* adjacency_list(): the keys are the uninfected cells; each deque holds the
\* uninfected in-grid neighbours in the order u, d, l, r
adjacency_list(inf) ==
    [pos \in {c \in DOMAIN inf : inf[c] = None} |->
        LET neighbours == get_neighbours(pos)
        IN  SelectSeq([k \in 1 .. Len(Dirs) |-> neighbours[Dirs[k]]],
                      LAMBDA n : n # None /\ inf[n] = None)]

\* bfs: `for n in neighbours`, from the k-th neighbour on, for the path p taken
\* from the queue q; ret is the path returned inside the loop, <<>> when the
\* loop ends without returning
RECURSIVE bfs_expand(_, _, _, _, _)
bfs_expand(q, p, neighbours, goal, k) ==
    IF k > Len(neighbours) THEN [queue |-> q, ret |-> <<>>]
    ELSE LET n == neighbours[k]
             new_path == Append(p, n)
         IN  IF n = goal
             THEN [queue |-> Append(q, new_path), ret |-> new_path]
             ELSE bfs_expand(Append(q, new_path), p, neighbours, goal, k + 1)

\* `cell not in visited`
InSeq(x, sq) == \E k \in 1 .. Len(sq) : sq[k] = x

\* bfs, up to its while loop; the history of spawn and propagate ends here
BfsStart ==
    /\ pc = "bfs"
    /\ alist' = adjacency_list(infected)
    /\ queue' = << <<0>> >>
    /\ visited' = <<>>
    /\ pc' = "bfsloop"
    /\ seeded' = <<>> /\ snapshot' = <<>> /\ attempts' = {}
    /\ UNCHANGED <<probe, probed, rows, cols, seed, risk, iterations, generation, infected, route, path,
                   positions, spawnLeft, cursor>>

\* bfs: one iteration of `while queue`; alist[cell] of a missing key raises
\* KeyError; a return inside the loop goes back to compute_path
BfsStep ==
    /\ pc = "bfsloop"
    /\ queue # <<>>
    /\ LET p == Head(queue)
           cell == p[Len(p)]
       IN  IF InSeq(cell, visited)
           THEN /\ queue' = Tail(queue)
                /\ UNCHANGED <<visited, route, pc>>
           ELSE IF cell \notin DOMAIN alist
           THEN /\ pc' = "error"
                /\ queue' = Tail(queue)
                /\ UNCHANGED <<visited, route>>
           ELSE LET e == bfs_expand(Tail(queue), p, alist[cell], size - 1, 1)
                IN  /\ queue' = e.queue
                    /\ IF e.ret # <<>>
                       THEN /\ route' = e.ret
                            /\ pc' = "compute"
                            /\ UNCHANGED visited
                       ELSE /\ visited' = Append(visited, cell)
                            /\ UNCHANGED <<route, pc>>
    /\ UNCHANGED <<probe, probed, rows, cols, seed, risk, iterations, generation, infected, path,
                   positions, spawnLeft, cursor, alist, seeded, snapshot, attempts>>

\* bfs returns None: compute_path prints "No path could be found." and exits
BfsReturnNone ==
    /\ pc = "bfsloop"
    /\ queue = <<>>
    /\ route' = <<>>
    /\ pc' = "noroute"
    /\ UNCHANGED <<probe, probed, rows, cols, seed, risk, iterations, generation, infected, path,
                   positions, spawnLeft, cursor, alist, queue, visited,
                   seeded, snapshot, attempts>>

\* compute_path: the pair (i, j) computed for pos
coordinate(pos) == <<pos \div rows, pos % cols>>

\* compute_path: the OrderedDict path, as the sequence of its items (pos, (i, j));
\* a key assigned again keeps its place
RECURSIVE ordered_path(_, _, _)
ordered_path(rt, k, acc) ==
    IF k > Len(rt) THEN acc
    ELSE ordered_path(rt, k + 1,
             IF \E m \in 1 .. Len(acc) : acc[m][1] = rt[k]
             THEN acc
             ELSE Append(acc, <<rt[k], coordinate(rt[k])>>))

\* compute_path, when bfs returned a route: the coordinates are printed
ComputePath ==
    /\ pc = "compute"
    /\ path' = ordered_path(route, 1, <<>>)
    /\ pc' = "done"
    /\ UNCHANGED <<probe, probed, rows, cols, seed, risk, iterations, generation, infected, route,
                   positions, spawnLeft, cursor, alist, queue, visited,
                   seeded, snapshot, attempts>>

Next ==
    \/ SpawnStep
    \/ SpawnRaise
    \/ SpawnReturn
    \/ RoundStart
    \/ Visit
    \/ PropagateReturn
    \/ BfsStart
    \/ BfsStep
    \/ BfsReturnNone
    \/ ComputePath

Spec == Init /\ [][Next]_vars

-----------------------------------------------------------------------------
\* Definitions for the properties, independent of get_neighbours

goal == size - 1

Corners == {0, size - 1}

\* the cells spawn may choose from
Eligible == Cells \ Corners

InfectedCells == {c \in DOMAIN infected : infected[c] # None}

Row(c) == c \div cols

Col(c) == c % cols

\* a and b are 4-adjacent cells of the grid, by their coordinates
Adjacent(a, b) ==
    \/ Row(a) = Row(b) /\ Col(a) - Col(b) \in {-1, 1}
    \/ Col(a) = Col(b) /\ Row(a) - Row(b) \in {-1, 1}

\* the uninfected cells that a sequence of 4-adjacent uninfected cells starting
\* at cell 0 reaches in at most k steps
RECURSIVE Within(_)
Within(k) ==
    IF k = 0 THEN {0} \cap (Cells \ InfectedCells)
    ELSE LET W == Within(k - 1)
         IN  W \cup {c \in Cells \ InfectedCells : \E w \in W : Adjacent(w, c)}

\* spawn has returned and no round of propagate has begun
Spawned == pc = "propagate" /\ generation = 0

\* the cells first infected in the current round
NewlyInfected ==
    IF snapshot = <<>> THEN {}
    ELSE {c \in Cells : snapshot[c] = None /\ infected[c] # None}

-----------------------------------------------------------------------------
\* C1. Corner immunity: in every state reached by spawn and any number of
\* propagate rounds, infected[0] and infected[rows*cols-1] are None.
C1_CornerImmunity == infected[0] = None /\ infected[size - 1] = None

\* C1: with risk 1, propagate has called infect on a corner: every sample passes
C1_Witness ==
    /\ risk = SampleDen
    /\ \E a \in attempts : a[2] \in Corners
    /\ InfectedCells # {}

\* C2 (as claimed). Write-once: a cell whose generation is set keeps that
\* generation in every later state; infect on an infected cell is a no-op.
C2_WriteOnce ==
    [][\A c \in DOMAIN infected : infected[c] # None => infected'[c] = infected[c]]_vars

\* C3. Shortest-path correctness: a route returned by bfs starts at cell 0, ends
\* at cell rows*cols-1, its consecutive cells are 4-adjacent, all its cells are
\* uninfected, and no sequence with these properties has fewer cells.
C3_ShortestPath ==
    pc \in {"compute", "done"} =>
        /\ Len(route) >= 1
        /\ route[1] = 0
        /\ route[Len(route)] = goal
        /\ \A k \in 1 .. (Len(route) - 1) : Adjacent(route[k], route[k + 1])
        /\ \A k \in 1 .. Len(route) : infected[route[k]] = None
        /\ \A k \in 0 .. (Len(route) - 2) : goal \notin Within(k)

\* C3: a route was returned on a grid with infected cells where a longer
\* sequence of uninfected cells also joins the corners
C3_Witness ==
    /\ pc = "done"
    /\ InfectedCells # {}
    /\ rows > 1 /\ cols > 1
    /\ Cardinality(Cells \ InfectedCells) > Len(route)

\* C4 (as claimed). Route completeness: bfs returns None only if no sequence of
\* 4-adjacent uninfected cells from the start cell to the goal cell exists.
C4_RouteComplete == pc = "noroute" => goal \notin Within(size)

\* C5 (as claimed). Route coordinates: every cell pos of the route is reported
\* as the pair (row, col) with pos = row*cols + col, 0 <= row < rows, 0 <= col < cols.
C5_Coordinates ==
    pc = "done" =>
        /\ Len(path) = Len(route)
        /\ \A k \in 1 .. Len(route) :
            /\ path[k][1] = route[k]
            /\ path[k][2][1] * cols + path[k][2][2] = route[k]
            /\ path[k][2][1] \in 0 .. (rows - 1)
            /\ path[k][2][2] \in 0 .. (cols - 1)

\* C6. No cascade within a round: a cell first infected in round r makes no
\* transmission attempt in round r.
C6_NoCascade == \A a \in attempts : a[1] \notin NewlyInfected

\* C6: in round 2 a cell first infected in round 1 transmits, and a cell that
\* was infected in round 2 before the loop reached it has not transmitted
C6_Witness ==
    /\ pc = "propagate"
    /\ generation = 2
    /\ \E c \in Cells, a \in attempts :
        seeded[c] = None /\ snapshot[c] # None /\ a[1] = c
    /\ \E d \in NewlyInfected :
        /\ \E a \in attempts : a[2] = d
        /\ \A a \in attempts : a[2] = d => a[1] < d

\* C7 (as claimed). Seed overcommit is capped: when floor(rows*cols*seed)
\* exceeds the number of eligible cells, spawn infects the whole eligible pool
\* at generation 0 and completes without an error.
C7_OvercommitCapped ==
    SeedCount > Cardinality(Eligible) =>
        /\ pc # "error"
        /\ Spawned => \A c \in Cells : infected[c] = IF c \in Eligible THEN 0 ELSE None

\* C8. Seeding count: when floor(rows*cols*seed) does not exceed the number of
\* non-corner cells, spawn returns with exactly that many cells infected, each a
\* non-corner cell of generation 0.
C8_SeedingCount ==
    SeedCount <= Cardinality(Eligible) =>
        /\ pc # "error"
        /\ Spawned =>
            /\ Cardinality(InfectedCells) = SeedCount
            /\ \A c \in InfectedCells : c \in Eligible /\ infected[c] = 0

\* C8: spawn returned after seeding several cells, not the whole pool
C8_Witness ==
    /\ Spawned
    /\ SeedCount >= 2
    /\ SeedCount < Cardinality(Eligible)
    /\ Cardinality(InfectedCells) = SeedCount

\* C9. Zero-round identity: with iterations = 0, propagate calls infect never
\* and returns with the infected map spawn produced.
C9_ZeroRound ==
    (iterations = 0 /\ pc \in {"propagate", "round", "bfs"}) =>
        /\ pc # "round"
        /\ generation = 0
        /\ attempts = {}
        /\ infected = seeded

\* C9: propagate returned with iterations = 0, risk 1 and a seeded cell that has
\* an uninfected eligible neighbour
C9_Witness ==
    /\ iterations = 0
    /\ pc = "bfs"
    /\ risk = SampleDen
    /\ \E c \in InfectedCells, n \in Eligible \ InfectedCells : Adjacent(c, n)

\* C10. Infection spreads only by adjacency: a cell first infected in round r
\* has a 4-neighbour that was infected before round r; when nothing is seeded,
\* no cell is ever infected.
C10_Adjacency ==
    /\ \A c \in NewlyInfected : \E n \in Cells : Adjacent(c, n) /\ snapshot[n] # None
    /\ SeedCount = 0 => InfectedCells = {}

\* C10: a round has infected a cell that has an uninfected 4-neighbour and a
\* cell of the grid that is no neighbour of any cell infected before the round
\* stayed clean under risk 1
C10_Witness ==
    /\ pc = "propagate"
    /\ risk = SampleDen
    /\ NewlyInfected # {}
    /\ \E c \in Eligible \ InfectedCells :
        \A n \in Cells : Adjacent(c, n) => snapshot[n] = None

-----------------------------------------------------------------------------
\* the sequences of k + 1 uninfected cells that start at cell 0 and whose
\* consecutive cells are 4-adjacent, by exhaustive enumeration
RECURSIVE Walks(_)
Walks(k) ==
    IF k = 0 THEN {<<c>> : c \in {0} \cap (Cells \ InfectedCells)}
    ELSE UNION {{Append(p, c) : c \in {x \in Cells \ InfectedCells :
                                         Adjacent(p[Len(p)], x)}} : p \in Walks(k - 1)}

\* the least number of steps of such a sequence that ends at the goal
\* (only used when one exists)
MinSteps == CHOOSE k \in 0 .. size : goal \in Within(k) /\ \A j \in 0 .. (k - 1) : goal \notin Within(j)

\* all shortest routes through the uninfected cells
ShortestRoutes == {p \in Walks(MinSteps) : p[Len(p)] = goal}

\* the rank of the move from a to the adjacent cell b: up < down < left < right
MoveRank(a, b) ==
    IF Col(a) = Col(b) /\ Row(b) = Row(a) - 1 THEN 1
    ELSE IF Col(a) = Col(b) /\ Row(b) = Row(a) + 1 THEN 2
    ELSE IF Row(a) = Row(b) /\ Col(b) = Col(a) - 1 THEN 3
    ELSE 4

Moves(p) == [k \in 1 .. (Len(p) - 1) |-> MoveRank(p[k], p[k + 1])]

\* s is lexicographically at most t, for sequences of the same length
LexLeq(s, t) ==
    \/ s = t
    \/ \E i \in 1 .. Len(s) : s[i] < t[i] /\ \A j \in 1 .. (i - 1) : s[j] = t[j]

\* C11. Tie-break: the route bfs returns is, among all shortest routes through
\* the uninfected cells, the one whose sequence of moves is lexicographically
\* least under up < down < left < right; on a clean 2x2 grid it is 0, 2, 3.
C11_TieBreak ==
    pc \in {"compute", "done"} =>
        /\ route \in ShortestRoutes
        /\ \A r \in ShortestRoutes : LexLeq(Moves(route), Moves(r))
        /\ (rows = 2 /\ cols = 2 /\ InfectedCells = {}) => route = <<0, 2, 3>>

\* C11: a route was returned where several shortest routes exist around an
\* infected cell
C11_Witness ==
    /\ pc = "done"
    /\ InfectedCells # {}
    /\ Cardinality(ShortestRoutes) >= 2

-----------------------------------------------------------------------------
\* C13 (as claimed). Frontier from a stable snapshot: in every round, every cell
\* that was infected at the start of the round makes a transmission attempt on
\* each of its in-grid neighbours during the round.
C13_StableFrontier ==
    (pc = "propagate" /\ generation >= 1) =>
        \A c \in Cells : snapshot[c] # None =>
            \A n \in Cells : Adjacent(c, n) => <<c, n>> \in attempts

\* C14 (as claimed). Strict threshold: an attempt infects only if the sample is
\* strictly less than the risk; with risk = 0 no cell becomes infected in any
\* round, for every sample, 0 included.
C14_StrictThreshold == risk = 0 => NewlyInfected = {}

\* C17. The infected set never shrinks: a cell whose entry is not None keeps an
\* entry that is not None in every later state, whatever its generation number.
C17_NeverShrinks ==
    [][\A c \in DOMAIN infected : infected[c] # None => infected'[c] # None]_vars

\* C17: propagate has called infect on a cell that was already infected and
\* its generation number was replaced
C17_Witness ==
    \E a \in attempts :
        /\ snapshot[a[2]] # None
        /\ infected[a[2]] # None
        /\ infected[a[2]] # snapshot[a[2]]

-----------------------------------------------------------------------------
\* The program is sequential and runs each of its steps to completion: a step
\* that can be taken is taken.
FairSpec == Spec /\ WF_vars(Next)

\* C15. Propagation terminates: the round counter starts at 0, grows by exactly
\* 1 per round, never exceeds iterations, and propagate returns, with the
\* counter equal to iterations (at once when iterations = 0).
C15_PropagateTerminates ==
    /\ [](pc = "spawn" => generation = 0)
    /\ [](generation <= iterations)
    /\ [](pc \in {"bfs", "bfsloop", "compute", "done", "noroute"} => generation = iterations)
    /\ [][generation' # generation =>
            generation' = generation + 1 /\ pc = "propagate" /\ pc' = "round"]_vars
    /\ [][(Spawned /\ iterations = 0) => pc' = "bfs"]_vars
    /\ (Spawned ~> pc = "bfs")

\* C15: propagate returned after two rounds or more
C15_Witness == pc = "bfs" /\ generation = iterations /\ iterations >= 2

\* the last cell of the k-th path of the queue
LastCell(k) == queue[k][Len(queue[k])]

\* C18. bfs is well-defined and terminates: every path in the queue ends in an
\* uninfected cell that is a key of the adjacency list, so no lookup fails;
\* no cell is expanded twice; and bfs returns.
C18_BfsTerminates ==
    /\ [](pc = "bfsloop" =>
            \A k \in 1 .. Len(queue) :
                LastCell(k) \in DOMAIN alist /\ infected[LastCell(k)] = None)
    /\ [](pc = "error" => alist = <<>>)
    /\ [](\A i, j \in 1 .. Len(visited) : i # j => visited[i] # visited[j])
    /\ [][(pc = "bfsloop" /\ visited' # visited) =>
            /\ ~InSeq(LastCell(1), visited)
            /\ visited' = Append(visited, LastCell(1))]_vars
    /\ (pc = "bfs" ~> pc \in {"done", "noroute"})

\* C18: bfs returned None after expanding three cells or more; the queue is
\* empty, so the paths leading back to expanded cells were taken and skipped
C18_Witness ==
    /\ pc = "noroute"
    /\ Len(visited) >= 3
    /\ InfectedCells # {}

-----------------------------------------------------------------------------
\* get_neighbours on its own: an Infection object of any shape up to
\* MaxDim x MaxDim, fresh from __init__, and calls get_neighbours(pos) for the
\* cells of its grid
TopoInit ==
    /\ rows \in 1 .. MaxDim
    /\ cols \in 1 .. MaxDim
    /\ seed = 0
    /\ risk = 0
    /\ iterations = 0
    /\ generation = 0
    /\ infected = [i \in 0 .. (rows * cols - 1) |-> None]
    /\ route = <<>>
    /\ path = <<>>
    /\ pc = "topology"
    /\ positions = {}
    /\ spawnLeft = 0
    /\ cursor = 0
    /\ alist = <<>>
    /\ queue = <<>>
    /\ visited = <<>>
    /\ seeded = <<>>
    /\ snapshot = <<>>
    /\ attempts = {}
    /\ probe = None
    /\ probed = <<>>

\* a call get_neighbours(pos)
GetNeighbours ==
    /\ pc = "topology"
    /\ \E pos \in Cells :
        /\ probe' = pos
        /\ probed' = get_neighbours(pos)
    /\ UNCHANGED <<rows, cols, seed, risk, iterations, generation, infected, route, path,
                   pc, positions, spawnLeft, cursor, alist, queue, visited,
                   seeded, snapshot, attempts>>

TopoNext == GetNeighbours

TopoSpec == TopoInit /\ [][TopoNext]_vars

\* the id of the cell at (r, c)
CellAt(r, c) == r * cols + c

\* C16. Grid topology: get_neighbours(id) holds under u, d, l, r the ids of the
\* cells at (row-1,col), (row+1,col), (row,col-1), (row,col+1) that lie inside
\* the grid and None for a move across an edge; the neighbour relation is
\* symmetric.
C16_Topology ==
    probe # None =>
        /\ DOMAIN probed = {"u", "d", "l", "r"}
        /\ probed.u = IF Row(probe) - 1 >= 0
                      THEN CellAt(Row(probe) - 1, Col(probe)) ELSE None
        /\ probed.d = IF Row(probe) + 1 < rows
                      THEN CellAt(Row(probe) + 1, Col(probe)) ELSE None
        /\ probed.l = IF Col(probe) - 1 >= 0
                      THEN CellAt(Row(probe), Col(probe) - 1) ELSE None
        /\ probed.r = IF Col(probe) + 1 < cols
                      THEN CellAt(Row(probe), Col(probe) + 1) ELSE None
        /\ \A a \in Cells :
            (a \in {probed[d] : d \in DOMAIN probed}) <=> (probe \in InGrid(a))

\* C16: get_neighbours was called for a cell on the right edge of a grid, in a
\* row that is neither the first nor the last: the cell pos + 1 exists and is
\* no neighbour
C16_Witness ==
    /\ probe # None
    /\ Col(probe) = cols - 1
    /\ cols >= 3
    /\ probed.u # None /\ probed.d # None /\ probed.l # None
    /\ probed.r = None
    /\ probe + 1 \in Cells
====
